---------------------------- MODULE Spec2Model ----------------------------
(***************************************************************************)
(* PeakPickerRapid (OpenMS): computeTPG, computeScaledGaussian, pick and   *)
(* pickExperiment of include/OpenMS/TRANSFORMATIONS/RAW2PEAK/              *)
(* PeakPickerRapid.h.                                                      *)
(*                                                                         *)
(* Encoding of the doubles.  A raw sample is [mz, lg]:                     *)
(*   mz  the m/z value in units of 1/MzScale,                              *)
(*   lg  the binary logarithm of the intensity in units of 1/LgScale, so   *)
(*       intensity = 2^(lg/LgScale); lg = 0 is the intensity 1.0.          *)
(* Every sample of the model is a finite, strictly positive double.  The   *)
(* arithmetic of computeTPG is carried out exactly on this grid, operation *)
(* by operation in the order the C++ evaluates it, with the range of a     *)
(* double: a result of 2^DblMaxExp or more is +infinity, a result below    *)
(* 2^-DblTinyExp is zero, and the IEEE rules for zero, infinity and        *)
(* not-a-number apply from there on.  Rounding of the mantissa is not      *)
(* modelled.                                                               *)
(***************************************************************************)
EXTENDS Integers, Sequences, FiniteSets, TLC

MzScale == 10
LgScale == 100

\* std::numeric_limits<double>: 2^1024 overflows, below 2^-1075 rounds to 0.
DblMaxExp == 1024
DblTinyExp == 1075

Abs(n) == IF n < 0 THEN -n ELSE n

Sgn(n) == IF n < 0 THEN -1 ELSE IF n > 0 THEN 1 ELSE 0

RECURSIVE GCD(_, _)
GCD(a, b) == IF b = 0 THEN a ELSE GCD(b, a % b)

\* The fraction n/d (d # 0) in lowest terms with a positive denominator.
Rat(n, d) ==
  LET g == GCD(Abs(n), Abs(d))
      s == Sgn(d)
  IN  <<(s * n) \div g, (s * d) \div g>>

\* a + b over the least common denominator.
RAdd(a, b) ==
  LET g == GCD(a[2], b[2])
  IN  Rat(a[1] * (b[2] \div g) + b[1] * (a[2] \div g), (a[2] \div g) * b[2])

\* a * b, cancelling across before multiplying.
RMul(a, b) ==
  LET g1 == GCD(Abs(a[1]), b[2])
      g2 == GCD(Abs(b[1]), a[2])
      h1 == IF g1 = 0 THEN 1 ELSE g1
      h2 == IF g2 = 0 THEN 1 ELSE g2
  IN  Rat((a[1] \div h1) * (b[1] \div h2), (a[2] \div h2) * (b[2] \div h1))

\* a / b for b # 0.
RDiv(a, b) == RMul(a, Rat(b[2], b[1]))

RSq(a) == <<a[1] * a[1], a[2] * a[2]>>

\* floor(a) for a fraction in lowest terms.
RFloor(a) == a[1] \div a[2]

\* floor(log2(n/d)) for n, d > 0.
RECURSIVE FloorLog2(_, _)
FloorLog2(n, d) ==
  IF n < d THEN -1 + FloorLog2(2 * n, d)
  ELSE IF n >= 2 * d THEN 1 + FloorLog2(n, 2 * d)
  ELSE 0

(***************************************************************************)
(* Non-negative doubles known by their binary logarithm: [k, q] with k one *)
(* of "zero", "pos", "inf", "nan" and, for "pos", the value 2^(q/unit).    *)
(***************************************************************************)
Zero == [k |-> "zero", q |-> 0]

Inf == [k |-> "inf", q |-> 0]

NaN == [k |-> "nan", q |-> 0]

Rng(q, unit) ==
  IF q >= DblMaxExp * unit THEN Inf
  ELSE IF q < -(DblTinyExp * unit) THEN Zero
  ELSE [k |-> "pos", q |-> q]

\* a * b, held at +-2^30 when it is larger: beyond every range limit below.
SatMul(a, b) ==
  IF a = 0 \/ b = 0 THEN 0
  ELSE IF Abs(a) > (2 ^ 30) \div Abs(b) THEN Sgn(a) * Sgn(b) * (2 ^ 30)
  ELSE a * b

\* std::pow(y, e) for the intensity y = 2^(lg/LgScale) and the exponent e in
\* 1/(unit/LgScale): the binary logarithm of the result is lg*e/unit.
Pow(lg, e, unit) == Rng(SatMul(lg, e), unit)

\* a * b in double arithmetic.
Mul(a, b, unit) ==
  IF a.k = "nan" \/ b.k = "nan" THEN NaN
  ELSE IF (a.k = "zero" /\ b.k = "inf") \/ (a.k = "inf" /\ b.k = "zero") THEN NaN
  ELSE IF a.k = "zero" \/ b.k = "zero" THEN Zero
  ELSE IF a.k = "inf" \/ b.k = "inf" THEN Inf
  ELSE Rng(a.q + b.q, unit)

(***************************************************************************)
(* std::log of such a double, in units of ln(2)/unit: [k, q] with k one of *)
(* "fin", "pinf", "ninf", "nan".                                           *)
(***************************************************************************)
Log(a) ==
  CASE a.k = "zero" -> [k |-> "ninf", q |-> 0]
    [] a.k = "inf"  -> [k |-> "pinf", q |-> 0]
    [] a.k = "nan"  -> [k |-> "nan", q |-> 0]
    [] OTHER        -> [k |-> "fin", q |-> a.q]

\* The sign of a logarithm: -1, 0, 1.
LogSign(l) ==
  CASE l.k = "pinf" -> 1
    [] l.k = "ninf" -> -1
    [] OTHER        -> Sgn(l.q)

(***************************************************************************)
(* Line 95, mu = 0.5 * (log(N) / denom), in m/z grid units: [k, v] with k  *)
(* one of "fin", "pinf", "ninf", "nan" and v the fraction for "fin".       *)
(***************************************************************************)
MuOf(logN, denom) ==
  LET inf(s) == [k |-> IF s > 0 THEN "pinf" ELSE "ninf", v |-> <<0, 1>>]
      nan    == [k |-> "nan", v |-> <<0, 1>>]
      dInf   == denom.k \in {"pinf", "ninf"}
      nInf   == logN.k \in {"pinf", "ninf"}
  IN  IF logN.k = "nan" \/ denom.k = "nan" THEN nan
      ELSE IF nInf /\ dInf THEN nan
      ELSE IF dInf THEN [k |-> "fin", v |-> <<0, 1>>]
      ELSE IF denom.q = 0
           THEN (IF LogSign(logN) = 0 THEN nan ELSE inf(LogSign(logN)))
      ELSE IF nInf THEN inf(LogSign(logN) * Sgn(denom.q))
      ELSE [k |-> "fin", v |-> Rat(logN.q, 2 * denom.q)]

(***************************************************************************)
(* Line 97, the radicand 0.5*((x1-x3)*(x2-x1)*(x3-x2))/denom in grid units *)
(* squared: [k, c] with k one of "neg", "zero", "pos", "pinf", "ninf",     *)
(* "nan"; for "pos" and "neg" the value is c / ln(2).                      *)
(***************************************************************************)
Radicand(num3, denom) ==
  LET r(kind, c) == [k |-> kind, c |-> c]
  IN  IF denom.k = "nan" THEN r("nan", <<0, 1>>)
      ELSE IF denom.k \in {"pinf", "ninf"} THEN r("zero", <<0, 1>>)
      ELSE IF denom.q = 0
           THEN (IF num3 > 0 THEN r("pinf", <<0, 1>>)
                 ELSE IF num3 < 0 THEN r("ninf", <<0, 1>>)
                 ELSE r("nan", <<0, 1>>))
      ELSE IF num3 = 0 THEN r("zero", <<0, 1>>)
      ELSE LET c == Rat(num3 * LgScale, 2 * denom.q)
           IN  r(IF c[1] > 0 THEN "pos" ELSE "neg", c)

\* std::sqrt of the radicand: the kind of sigma, and of sigma*sigma.
SqrtKind(rad) ==
  CASE rad.k = "pos"  -> "pos"
    [] rad.k = "zero" -> "zero"
    [] rad.k = "pinf" -> "inf"
    [] OTHER          -> "nan"

(***************************************************************************)
(* The sum (x1-mu)^2 + (x2-mu)^2 + (x3-mu)^2 of line 99: [k, v] with k one *)
(* of "fin", "pinf", "nan".  The squares are taken on x - x2 and mu - x2,  *)
(* which is the same number.                                               *)
(***************************************************************************)
SqSum(x1, x2, x3, mu) ==
  IF mu.k = "nan" THEN [k |-> "nan", v |-> <<0, 1>>]
  ELSE IF mu.k # "fin" THEN [k |-> "pinf", v |-> <<0, 1>>]
  ELSE LET m == RAdd(mu.v, <<-x2, 1>>)
           d(x) == RSq(RAdd(<<x - x2, 1>>, <<-m[1], m[2]>>))
       IN  [k |-> "fin", v |-> RAdd(RAdd(d(x1), d(x2)), d(x3))]

(***************************************************************************)
(* exp(S / (6*sigma*sigma)) of line 99: [k, b] with k one of "pos", "inf", *)
(* "nan" and, for "pos", the value 2^b (b a fraction of bits).             *)
(***************************************************************************)
ExpTerm(s, rad) ==
  LET sk     == SqrtKind(rad)
      e(k, b) == [k |-> k, b |-> b]
  IN  IF s.k = "nan" \/ sk = "nan" THEN e("nan", <<0, 1>>)
      ELSE IF s.k = "pinf"
           THEN (IF sk = "inf" THEN e("nan", <<0, 1>>) ELSE e("inf", <<0, 1>>))
      ELSE IF sk = "inf" THEN e("pos", <<0, 1>>)
      ELSE IF sk = "zero"
           THEN (IF s.v[1] = 0 THEN e("nan", <<0, 1>>) ELSE e("inf", <<0, 1>>))
      ELSE LET b == RDiv(s.v, RMul(<<6, 1>>, rad.c))
           IN  IF RFloor(b) >= DblMaxExp THEN e("inf", <<0, 1>>) ELSE e("pos", b)

\* floor(log2(sqrt(2*pi*sigma^2))) in m/z units for sigma^2 = c/ln(2) grid
\* units squared, to within one bit (2*pi/ln 2 is 9.06...).
SqrtBits(c) == FloorLog2(9 * c[1], c[2] * MzScale * MzScale) \div 2

(***************************************************************************)
(* Doubles of the form 2^h * sqrt(2*pi*c/ln 2)^w, w in {0, 1}: the area    *)
(* (w = 1) and the height (w = 0) of a fitted Gaussian.  [k, h, c, w] with *)
(* k one of "zero", "pos", "inf", "nan".                                   *)
(***************************************************************************)
Special(kind) == [k |-> kind, h |-> <<0, 1>>, c |-> <<0, 1>>, w |-> 0]

Val(h, c, w) ==
  LET est == RFloor(h) + (IF w = 1 THEN SqrtBits(c) ELSE 0)
  IN  IF est >= DblMaxExp THEN Special("inf")
      ELSE IF est < -DblTinyExp THEN Special("zero")
      ELSE [k |-> "pos", h |-> h, c |-> IF w = 1 THEN c ELSE <<0, 1>>, w |-> w]

\* The kind of a product of two doubles of which one at least is special.
MulKind(a, b) ==
  IF a = "nan" \/ b = "nan" THEN "nan"
  ELSE IF (a = "zero" /\ b = "inf") \/ (a = "inf" /\ b = "zero") THEN "nan"
  ELSE IF a = "zero" \/ b = "zero" THEN "zero"
  ELSE IF a = "inf" \/ b = "inf" THEN "inf"
  ELSE "pos"

(***************************************************************************)
(* Line 99: area = (sqrt(2*pi*sigma*sigma) * pow(y1*y2*y3, 1/3)) * exp(..) *)
(* with t1k the kind of the square root, t2 the cube root [k, b] and t3    *)
(* the exponential [k, b].                                                 *)
(***************************************************************************)
AreaOf(rad, t2, t3) ==
  LET t1k == SqrtKind(rad)
      m12 == IF t1k = "pos" /\ t2.k = "pos" THEN Val(t2.b, rad.c, 1).k
             ELSE MulKind(t1k, t2.k)
  IN  IF m12 = "pos" /\ t3.k = "pos" THEN Val(RAdd(t2.b, t3.b), rad.c, 1)
      ELSE Special(MulKind(m12, t3.k))

(***************************************************************************)
(* computeTPG, lines 87-102.  p1, p2, p3 are samples [mz, lg]; the result  *)
(* holds the three out-parameters and the returned flag.                   *)
(***************************************************************************)
ComputeTPG(p1, p2, p3) ==
  LET x1 == p1.mz
      x2 == p2.mz
      x3 == p3.mz
      UD == LgScale * MzScale
      UN == LgScale * MzScale * MzScale
      denom == Log(Mul(Mul(Pow(p1.lg, x3 - x2, UD),
                           Pow(p2.lg, x1 - x3, UD), UD),
                       Pow(p3.lg, x2 - x1, UD), UD))
      logN  == Log(Mul(Mul(Pow(p1.lg, x3 * x3 - x2 * x2, UN),
                           Pow(p2.lg, x1 * x1 - x3 * x3, UN), UN),
                       Pow(p3.lg, x2 * x2 - x1 * x1, UN), UN))
      mu    == MuOf(logN, denom)
      rad   == Radicand((x1 - x3) * (x2 - x1) * (x3 - x2), denom)
      prod  == Mul(Mul(Rng(p1.lg, LgScale), Rng(p2.lg, LgScale), LgScale),
                   Rng(p3.lg, LgScale), LgScale)
      t2    == [k |-> prod.k, b |-> Rat(prod.q, 3 * LgScale)]
      t3    == ExpTerm(SqSum(x1, x2, x3, mu), rad)
      area  == AreaOf(rad, t2, t3)
  IN  [mu    |-> mu,
       sigma |-> [k |-> SqrtKind(rad), c |-> rad.c],
       area  |-> area,
       valid |-> area.k # "inf"]

(***************************************************************************)
(* computeScaledGaussian, lines 104-107, at x = mu as pick calls it:       *)
(* (area / sqrt(2*pi*sigma*sigma)) * exp(-((mu-mu)*(mu-mu))/(2*sigma^2)).  *)
(***************************************************************************)
ComputeScaledGaussian(mu, sigma, area) ==
  LET \* (x - mu) * (x - mu): 0, or not-a-number for an infinite or nan mu.
      dsqNaN == mu.k # "fin"
      \* exp(-0 / (2 sigma^2)): 1 unless 0/0 or a nan is involved.
      ek  == IF dsqNaN \/ sigma.k \in {"nan", "zero"} THEN "nan" ELSE "pos"
      \* area / sqrt(2 pi sigma^2)
      qk  == IF area.k = "nan" \/ sigma.k = "nan" THEN "nan"
             ELSE IF area.k = "zero"
                  THEN (IF sigma.k = "zero" THEN "nan" ELSE "zero")
             ELSE IF area.k = "inf"
                  THEN (IF sigma.k = "inf" THEN "nan" ELSE "inf")
             ELSE IF sigma.k = "zero" THEN "inf"
             ELSE IF sigma.k = "inf" THEN "zero"
             ELSE Val(area.h, <<0, 1>>, 0).k
  IN  IF qk = "pos" /\ ek = "pos" THEN Val(area.h, <<0, 1>>, 0)
      ELSE Special(MulKind(qk, ek))

(***************************************************************************)
(* Spectra.  A spectrum is [peaks, rt, msLevel, name, type]; the peaks of  *)
(* an input are raw samples [mz, lg], the peaks pick appends are           *)
(* [mz, intensity] with the fitted numbers.                                *)
(***************************************************************************)
\* Width of the unsigned Size type, scaled down from 64 bits.
SizeBits == 4

SizeMod == 2 ^ SizeBits

\* a - b in the unsigned Size type.
SizeSub(a, b) == (a - b + SizeMod) % SizeMod

\* input[k], 0-based as in the C++.
At(s, k) == s[k + 1]

\* The loop condition of line 127: i < input.size() - 2.
LoopCond(s, i) == i < SizeSub(Len(s), 2)

\* Every index the body reads at i (lines 129-135) is inside the container.
InRange(s, i) == i - 2 >= 0 /\ i + 2 <= Len(s) - 1

(***************************************************************************)
(* Faulty variants of the shape test, each the condition of lines 149-158  *)
(* with one of its checks lost.  The properties at the end of the module   *)
(* must tell each of them from ShapeTest.                                  *)
(***************************************************************************)
\* The spacing checks and the ascents of the shape test.
SpacingAndAscent(s, i, strict) ==
  LET sp(a)       == Abs(At(s, a + 1).mz - At(s, a).mz)
      min_spacing == IF sp(i - 1) < sp(i) THEN sp(i - 1) ELSE sp(i)
      Lt(a, b)    == IF strict THEN a < b ELSE a <= b
  IN  /\ \A a \in (i - 2)..(i + 1) : 2 * sp(a) < 3 * min_spacing
      /\ Lt(At(s, i - 2).lg, At(s, i - 1).lg) /\ Lt(At(s, i - 1).lg, At(s, i).lg)
      /\ Lt(At(s, i + 2).lg, At(s, i + 1).lg) /\ Lt(At(s, i + 1).lg, At(s, i).lg)

\* Without the intensity floor.
ShapeTestNoFloor(s, i) == SpacingAndAscent(s, i, TRUE)

\* Without the spacing checks.
ShapeTestNoSpacing(s, i) ==
  /\ \A d \in -2..2 : At(s, i + d).lg > 0
  /\ At(s, i - 2).lg < At(s, i - 1).lg /\ At(s, i - 1).lg < At(s, i).lg
  /\ At(s, i + 2).lg < At(s, i + 1).lg /\ At(s, i + 1).lg < At(s, i).lg

\* With <= in place of < between the intensities.
ShapeTestNonStrict(s, i) ==
  /\ \A d \in -2..2 : At(s, i + d).lg > 0
  /\ SpacingAndAscent(s, i, FALSE)

\* Without the descent on the right flank.
ShapeTestLeftOnly(s, i) ==
  /\ \A d \in -2..2 : At(s, i + d).lg > 0
  /\ \A a \in (i - 2)..(i + 1) :
       2 * Abs(At(s, a + 1).mz - At(s, a).mz) < 3 * Abs(At(s, i).mz - At(s, i - 1).mz)
  /\ At(s, i - 2).lg < At(s, i - 1).lg /\ At(s, i - 1).lg < At(s, i).lg

(***************************************************************************)
(* The condition of lines 149-158 at centre i.  An intensity exceeds 1.0   *)
(* iff its lg exceeds 0; d < 1.5*min_spacing is 2*d < 3*min_spacing.       *)
(***************************************************************************)
ShapeTest(s, i) ==
  LET central_peak   == At(s, i)
      l1_neighbor    == At(s, i - 1)
      r1_neighbor    == At(s, i + 1)
      l2_neighbor    == At(s, i - 2)
      r2_neighbor    == At(s, i + 2)
      l1_to_central  == Abs(central_peak.mz - l1_neighbor.mz)
      l2_to_l1       == Abs(l1_neighbor.mz - l2_neighbor.mz)
      central_to_r1  == Abs(r1_neighbor.mz - central_peak.mz)
      r1_to_r2       == Abs(r2_neighbor.mz - r1_neighbor.mz)
      min_spacing    == IF l1_to_central < central_to_r1
                        THEN l1_to_central ELSE central_to_r1
  IN  /\ central_peak.lg > 0 /\ l1_neighbor.lg > 0 /\ l2_neighbor.lg > 0
      /\ r1_neighbor.lg > 0 /\ r2_neighbor.lg > 0
      /\ 2 * l1_to_central < 3 * min_spacing
      /\ 2 * l2_to_l1 < 3 * min_spacing
      /\ l2_neighbor.lg < l1_neighbor.lg /\ l1_neighbor.lg < central_peak.lg
      /\ 2 * central_to_r1 < 3 * min_spacing
      /\ 2 * r1_to_r2 < 3 * min_spacing
      /\ r2_neighbor.lg < r1_neighbor.lg /\ r1_neighbor.lg < central_peak.lg

\* Faulty variant: the area whatever the intensity type.
PickedPeakAlwaysArea(fit, area_mode) == [mz |-> fit.mu, intensity |-> fit.area]

\* Lines 196-201: the peak built from a fit.
PickedPeak(fit, area_mode) ==
  [mz        |-> fit.mu,
   intensity |-> IF area_mode THEN fit.area
                 ELSE ComputeScaledGaussian(fit.mu, fit.sigma, fit.area)]

(***************************************************************************)
(* One pass through the loop body, lines 129-207, and the ++i of line 127, *)
(* at an index whose window is in range: whether the window passed, the    *)
(* flag of the fit, the peaks appended and the next value of i.            *)
(***************************************************************************)
LoopBody(s, i, area_mode) ==
  IF ShapeTest(s, i)
  THEN LET fit == ComputeTPG(At(s, i - 1), At(s, i), At(s, i + 1))
           k   == 2
       IN  [pass   |-> TRUE,
            compOK |-> fit.valid,
            peaks  |-> IF fit.valid THEN <<PickedPeak(fit, area_mode)>> ELSE <<>>,
            next   |-> (i + k - 1) + 1]
  ELSE [pass |-> FALSE, compOK |-> FALSE, peaks |-> <<>>, next |-> i + 1]

\* Faulty variant: the name is not carried over.
CopyMetaNoName(in) ==
  [peaks |-> <<>>, rt |-> in.rt, msLevel |-> in.msLevel, name |-> "",
   type |-> "PEAKS"]

\* Lines 114-120: the output spectrum before the scan.
CopyMeta(in) ==
  [peaks |-> <<>>, rt |-> in.rt, msLevel |-> in.msLevel, name |-> in.name,
   type |-> "PEAKS"]

\* Line 124.
IsAreaMode(option) == option = "peakarea"

\* pick run to completion on a spectrum of at least 2 samples, as
\* pickExperiment calls it in line 240.
RECURSIVE ScanFrom(_, _, _, _)
ScanFrom(s, i, area_mode, peaks) ==
  IF LoopCond(s, i)
  THEN LET b == LoopBody(s, i, area_mode)
       IN  ScanFrom(s, b.next, area_mode, peaks \o b.peaks)
  ELSE peaks

Pick(in, option) ==
  [CopyMeta(in) EXCEPT !.peaks = ScanFrom(in.peaks, 2, IsAreaMode(option), <<>>)]

(***************************************************************************)
(* Inputs.                                                                 *)
(***************************************************************************)
MaxLen == 6
MaxLongLen == 8

\* lg of the intensities 1.0, 2.0, 4.0, 8.0.
Levels == {0, 100, 200, 300}

LongLevels == {100, 200, 300}

\* lg of 2.0, 4.0, 2^340, 2^350.
XLevels == {100, 200, 34000, 35000}

\* m/z 100.0, and the spacings in grid units.
MzStart == 1000
Gap == 2
Gaps == {3, 4, 5}
XStarts == {0, 1000}
XGaps == {2, 20}

\* The size of the window of the shape test.
Window == 5

\* n samples spaced g apart from m/z x0 with the intensities lg[1..n].
Uniform(x0, g, lg) ==
  [k \in 1..Len(lg) |-> [mz |-> x0 + (k - 1) * g, lg |-> lg[k]]]

RECURSIVE MzFrom(_, _)
MzFrom(x0, gaps) ==
  IF gaps = <<>> THEN <<x0>> ELSE <<x0>> \o MzFrom(x0 + gaps[1], Tail(gaps))

Samples(mzs, lg) == [k \in 1..Len(lg) |-> [mz |-> mzs[k], lg |-> lg[k]]]

Tuples(n, S) == [1..n -> S]

\* (100.0,0.5) (100.1,5.0) (100.2,50.0) (100.3,5.0) (100.4,0.5) (100.5,0.9):
\* lg is -100, 232, 564, 232, -100, -15 to the nearest 1/LgScale.
Scenario == Samples(<<1000, 1001, 1002, 1003, 1004, 1005>>,
                    <<-100, 232, 564, 232, -100, -15>>)

IntensityTypes == {"peakarea", "maxpeak"}

SpectrumTypes == {"UNKNOWN", "PEAKS", "RAWDATA"}

Spectrum(samples, rt, level, name, type) ==
  [peaks |-> samples, rt |-> rt, msLevel |-> level, name |-> name, type |-> type]

Raw(samples) == Spectrum(samples, 0, 1, "", "RAWDATA")

\* A peak built from reads outside the container.
GarbagePeak ==
  [mz |-> [k |-> "nan", v |-> <<0, 1>>], intensity |-> Special("nan")]

\* What the output argument may hold when pick is called.
EmptySpectrum == Spectrum(<<>>, 0, 1, "", "UNKNOWN")

UsedSpectrum == Spectrum(<<GarbagePeak>>, 9, 2, "old", "RAWDATA")

\* A 5-sample peak, two peaks sharing their foot, and two samples.
OnePeak == Uniform(MzStart, Gap, <<100, 200, 300, 200, 100>>)

TwoPeaks == Uniform(MzStart, Gap, <<100, 200, 300, 200, 100, 200, 300, 200, 100>>)

TwoSamples == Uniform(MzStart, Gap, <<200, 300>>)

MetaInputs ==
  {Spectrum(s, rt, lv, nm, ty) :
     s \in {OnePeak, TwoPeaks, Scenario}, rt \in {0, 7}, lv \in {1, 2},
     nm \in {"", "scan"}, ty \in SpectrumTypes}

(***************************************************************************)
(* State.                                                                  *)
(***************************************************************************)
VARIABLES
  input,                \* pick's input spectrum
  param_intensity_type,       \* param_ "param_intensity_type"
  output,               \* pick's output spectrum
  pc,                   \* "call", "loop", "done", "crashed"; "idle" outside pick
  i,                    \* the loop variable of line 127
  intensity_type_area,  \* the local of line 124
  trace,                \* history: the centres evaluated, [c, pass, compOK]
  oobRead,              \* history: an index outside the container was read
  exp_input,            \* pickExperiment's input: [spectra, settings]
  exp_output,           \* pickExperiment's output
  param_ms1_only,       \* param_ "ms1_only"
  ms1_only,             \* the local of line 228
  scan_idx,             \* the loop variable of line 232
  progress,             \* the local of line 229
  logger,               \* ProgressLogger: "idle", "running", "ended"
  epc                   \* "call", "loop", "done"; "idle" outside pickExperiment

pickVars == <<input, param_intensity_type, output, pc, i, intensity_type_area, trace, oobRead>>

expVars == <<exp_input, exp_output, param_ms1_only, ms1_only, scan_idx, progress, logger, epc>>

vars == <<pickVars, expVars>>

NoExperiment == [spectra |-> <<>>, settings |-> ""]

ExpIdle ==
  /\ exp_input = NoExperiment
  /\ exp_output = NoExperiment
  /\ param_ms1_only = FALSE
  /\ ms1_only = FALSE
  /\ scan_idx = 0
  /\ progress = 0
  /\ logger = "idle"
  /\ epc = "idle"

\* The calls of pick the model starts from.
ShortCall ==
  \E n \in 0..MaxLen : \E lg \in Tuples(n, Levels) :
    /\ input = Raw(Uniform(MzStart, Gap, lg))
    /\ param_intensity_type = "maxpeak"
    /\ output = EmptySpectrum

LongCall ==
  \E n \in (MaxLen + 1)..MaxLongLen : \E lg \in Tuples(n, LongLevels) :
    /\ input = Raw(Uniform(MzStart, Gap, lg))
    /\ param_intensity_type = "maxpeak"
    /\ output = EmptySpectrum

GapCall ==
  \E g \in Tuples(Window - 1, Gaps), lg \in Tuples(Window, LongLevels) :
    /\ input = Raw(Samples(MzFrom(MzStart, g), lg))
    /\ param_intensity_type \in IntensityTypes
    /\ output = EmptySpectrum

ExtremeCall ==
  \E x0 \in XStarts, g \in XGaps, lg \in Tuples(Window, XLevels) :
    /\ input = Raw(Uniform(x0, g, lg))
    /\ param_intensity_type \in IntensityTypes
    /\ output = EmptySpectrum

MetaCall ==
  /\ input \in MetaInputs
  /\ param_intensity_type \in IntensityTypes
  /\ output \in {EmptySpectrum, UsedSpectrum}

Init ==
  /\ ShortCall \/ LongCall \/ GapCall \/ ExtremeCall \/ MetaCall
  /\ pc = "call"
  /\ i = 0
  /\ intensity_type_area = FALSE
  /\ trace = <<>>
  /\ oobRead = FALSE
  /\ ExpIdle

(***************************************************************************)
(* pick, lines 111-211.                                                    *)
(***************************************************************************)
\* Lines 113-127: copy the meta data, read the option, i = 2.
PickEnter ==
  /\ pc = "call"
  /\ output' = CopyMeta(input)
  /\ intensity_type_area' = IsAreaMode(param_intensity_type)
  /\ i' = 2
  /\ pc' = "loop"
  /\ UNCHANGED <<input, param_intensity_type, trace, oobRead, expVars>>

\* One iteration whose window lies inside the container.
PickIterate ==
  /\ pc = "loop"
  /\ LoopCond(input.peaks, i)
  /\ InRange(input.peaks, i)
  /\ LET b == LoopBody(input.peaks, i, intensity_type_area)
     IN  /\ output' = [output EXCEPT !.peaks = @ \o b.peaks]
         /\ i' = b.next
         /\ trace' = Append(trace, [c |-> i, pass |-> b.pass, compOK |-> b.compOK])
  /\ UNCHANGED <<input, param_intensity_type, pc, intensity_type_area, oobRead, expVars>>

(***************************************************************************)
(* An iteration that reads input[k] for a k outside the container:         *)
(* undefined behaviour.  The call faults, or it runs on over whatever lies *)
(* behind the buffer and returns with or without a peak built from it.     *)
(***************************************************************************)
PickIterateOutOfRange ==
  /\ pc = "loop"
  /\ LoopCond(input.peaks, i)
  /\ ~InRange(input.peaks, i)
  /\ oobRead' = TRUE
  /\ \E pass \in BOOLEAN, ok \in BOOLEAN :
       /\ trace' = Append(trace, [c |-> i, pass |-> pass, compOK |-> pass /\ ok])
       /\ output' = IF pass /\ ok
                    THEN [output EXCEPT !.peaks = Append(@, GarbagePeak)]
                    ELSE output
  /\ pc' \in {"crashed", "done"}
  /\ UNCHANGED <<input, param_intensity_type, i, intensity_type_area, expVars>>

\* The loop condition fails: line 210.
PickReturn ==
  /\ pc = "loop"
  /\ ~LoopCond(input.peaks, i)
  /\ pc' = "done"
  /\ UNCHANGED <<input, param_intensity_type, output, i, intensity_type_area, trace,
                 oobRead, expVars>>

Next == PickEnter \/ PickIterate \/ PickIterateOutOfRange \/ PickReturn

Spec == Init /\ [][Next]_vars

(***************************************************************************)
(* pickExperiment, lines 217-247.                                          *)
(***************************************************************************)
MaxSpectra == 2

\* What output.resize() fills in.
DefaultSpectrum == Spectrum(<<>>, 0, 1, "", "UNKNOWN")

ExpSpectra ==
  {Spectrum(s, 7, lv, "scan", "RAWDATA") :
     s \in {OnePeak, TwoPeaks, Scenario, TwoSamples}, lv \in {1, 2}}

Experiment(spectra, settings) == [spectra |-> spectra, settings |-> settings]

UsedExperiment == Experiment(<<UsedSpectrum, UsedSpectrum, UsedSpectrum>>, "old")

PickIdle ==
  /\ input = EmptySpectrum
  /\ output = EmptySpectrum
  /\ pc = "idle"
  /\ i = 0
  /\ intensity_type_area = FALSE
  /\ trace = <<>>
  /\ oobRead = FALSE

InitExp ==
  /\ \E n \in 0..MaxSpectra : \E sp \in Tuples(n, ExpSpectra) :
       exp_input = Experiment(sp, "run")
  /\ exp_output \in {NoExperiment, UsedExperiment}
  /\ param_ms1_only \in BOOLEAN
  /\ param_intensity_type \in IntensityTypes
  /\ ms1_only = FALSE
  /\ scan_idx = 0
  /\ progress = 0
  /\ logger = "idle"
  /\ epc = "call"
  /\ PickIdle

\* Faulty variant: every spectrum is picked, whatever ms1_only says.
ScanResultAlwaysPick(sp, ms1, option) == Pick(sp, option)

\* Lines 236 and 240: what the loop stores in output[scan_idx].
ScanResult(sp, ms1, option) ==
  IF ms1 /\ sp.msLevel # 1 THEN sp ELSE Pick(sp, option)

\* Lines 219-231.
ExpEnter ==
  /\ epc = "call"
  /\ exp_output' = Experiment([k \in 1..Len(exp_input.spectra) |-> DefaultSpectrum],
                              exp_input.settings)
  /\ ms1_only' = param_ms1_only
  /\ progress' = 0
  /\ logger' = "running"
  /\ scan_idx' = 0
  /\ epc' = "loop"
  /\ UNCHANGED <<exp_input, param_ms1_only, pickVars>>

\* Lines 232-243: one spectrum.
ExpIterate ==
  /\ epc = "loop"
  /\ scan_idx # Len(exp_input.spectra)
  /\ exp_output' = [exp_output EXCEPT !.spectra[scan_idx + 1] =
                      ScanResult(At(exp_input.spectra, scan_idx), ms1_only,
                                 param_intensity_type)]
  /\ progress' = progress + 1
  /\ scan_idx' = scan_idx + 1
  /\ UNCHANGED <<exp_input, param_ms1_only, ms1_only, logger, epc, pickVars>>

\* Lines 244-246.
ExpReturn ==
  /\ epc = "loop"
  /\ scan_idx = Len(exp_input.spectra)
  /\ logger' = "ended"
  /\ epc' = "done"
  /\ UNCHANGED <<exp_input, exp_output, param_ms1_only, ms1_only, scan_idx,
                 progress, pickVars>>

NextExp == ExpEnter \/ ExpIterate \/ ExpReturn

SpecExp == InitExp /\ [][NextExp]_vars

(***************************************************************************)
(* Properties.                                                             *)
(***************************************************************************)
Running == pc \in {"loop", "done"}

\* The centres evaluated so far, in the order of evaluation.
Centres == [k \in 1..Len(trace) |-> trace[k].c]

\* The fit of the inner triplet of the window centred at c.
FitAt(c) == ComputeTPG(At(input.peaks, c - 1), At(input.peaks, c), At(input.peaks, c + 1))

\* C1: a spectrum of 4 or fewer samples has no window evaluated, no index
\* outside 0..length-1 read, and comes back with zero peaks.
C1_ShortInputUntouched ==
  Len(input.peaks) <= 4 =>
    /\ trace = <<>>
    /\ ~oobRead
    /\ pc # "crashed"
    /\ pc = "done" => output.peaks = <<>>

\* C2 as stated: on the 6-sample scenario the window centred at index 2 is
\* accepted, exactly one peak is emitted, and index 5 is never a centre.
C2_ScenarioOnePeak ==
  (input.peaks = Scenario /\ pc = "done") =>
    /\ \E k \in 1..Len(trace) : trace[k].c = 2 /\ trace[k].pass
    /\ Len(output.peaks) = 1
    /\ \A k \in 1..Len(trace) : trace[k].c # 5

\* C2 amended: on the 6-sample scenario the windows centred at 2 and at 3
\* are the only ones evaluated, both fail the shape test (the intensities
\* 0.5 do not exceed 1.0), no peak is emitted, and index 5 is never a centre.
C2_ScenarioNoPeak ==
  (input.peaks = Scenario /\ Running) =>
    /\ \A k \in 1..Len(trace) : trace[k].c \in {2, 3} /\ ~trace[k].pass
    /\ output.peaks = <<>>
    /\ pc = "done" => Centres = <<2, 3>>

C2_ScenarioDone == input.peaks = Scenario /\ pc = "done" /\ Len(trace) = 2

\* C3: every evaluated centre lies in 2..length-3; after a window that
\* passes the shape test the next centre is i+2, after one that fails, i+1.
C3_ScanAdvance ==
  \A k \in 1..Len(trace) :
    /\ trace[k].c \in 2..(Len(input.peaks) - 3)
    /\ k < Len(trace) =>
         trace[k + 1].c = trace[k].c + (IF trace[k].pass THEN 2 ELSE 1)

\* C4: pickExperiment returns as many spectra as it was given; spectrum k is
\* the unchanged input spectrum if ms1_only is set and its MS level is not 1,
\* and the result of pick on input spectrum k otherwise; nothing of the
\* former content of the output remains.
C4_ExperimentResult ==
  epc = "done" =>
    /\ Len(exp_output.spectra) = Len(exp_input.spectra)
    /\ \A k \in 1..Len(exp_input.spectra) :
         LET in  == exp_input.spectra[k]
             out == exp_output.spectra[k]
         IN  IF param_ms1_only /\ in.msLevel # 1
             THEN out = in
             ELSE /\ out.peaks = ScanFrom(in.peaks, 2,
                                          param_intensity_type = "peakarea", <<>>)
                  /\ out.type = "PEAKS"
                  /\ <<out.rt, out.msLevel, out.name>> = <<in.rt, in.msLevel, in.name>>

C4_PassThroughAndPicked ==
  /\ epc = "done"
  /\ param_ms1_only
  /\ Len(exp_input.spectra) = 2
  /\ exp_input.spectra[1].msLevel = 2
  /\ exp_input.spectra[1].peaks = OnePeak
  /\ exp_output.spectra[1].peaks = OnePeak
  /\ exp_input.spectra[2].msLevel = 1
  /\ Len(exp_output.spectra[2].peaks) = 2

\* C5 as stated: the output of pick carries the input's retention time, MS
\* level, name and type tag.
C5_MetaVerbatim ==
  Running =>
    /\ output.rt = input.rt
    /\ output.msLevel = input.msLevel
    /\ output.name = input.name
    /\ output.type = input.type

\* C5 amended: the output of pick carries the input's retention time, MS
\* level and name, and its type tag is PEAKS whatever the input's was.
C5_MetaCopiedTypePeaks ==
  Running =>
    /\ output.rt = input.rt
    /\ output.msLevel = input.msLevel
    /\ output.name = input.name
    /\ output.type = "PEAKS"

C5_RawInputPicked ==
  /\ pc = "done"
  /\ input.type = "RAWDATA"
  /\ input.rt = 7 /\ input.msLevel = 2 /\ input.name = "scan"
  /\ Len(output.peaks) = 1

\* C6: a fit whose radicand is negative, zero or undefined is flagged invalid
\* and adds no peak; the flag is set only when the area is a finite number.
C6_DegenerateFitInvalid ==
  ~oobRead =>
    \A k \in 1..Len(trace) :
      trace[k].pass =>
        LET fit == FitAt(trace[k].c)
        IN  /\ fit.sigma.k # "pos" => ~fit.valid /\ ~trace[k].compOK
            /\ trace[k].compOK => fit.area.k \in {"pos", "zero"}

\* The peaks of the centres whose fit was flagged valid, in scan order.
ValidCentres ==
  LET Ok(e) == e.compOK IN SelectSeq(trace, Ok)

\* C7: on a run that reads only samples of the input, every emitted peak has
\* the fitted mu of its triplet as its m/z, and as its intensity
\* the fitted area if intensity_type is "peakarea" and the value of
\* computeScaledGaussian(mu, mu, sigma, area) for any other intensity_type.
C7_PeakFromFit ==
  (Running /\ ~oobRead) =>
    /\ Len(output.peaks) = Len(ValidCentres)
    /\ \A j \in 1..Len(ValidCentres) :
         LET fit == FitAt(ValidCentres[j].c)
             pk  == output.peaks[j]
         IN  /\ pk.mz = fit.mu
             /\ pk.intensity =
                  IF param_intensity_type = "peakarea" THEN fit.area
                  ELSE ComputeScaledGaussian(fit.mu, fit.sigma, fit.area)

C7_TwoAreaPeaks ==
  /\ pc = "done"
  /\ ~oobRead
  /\ param_intensity_type = "peakarea"
  /\ Len(output.peaks) = 2
  /\ output.peaks[1].intensity.k = "pos"

\* The conditions (a) to (d) of C8 at centre c of the samples s.
C8_Floor(s, c) == \A d \in -2..2 : At(s, c + d).lg > 0

C8_Spacing(s, c) ==
  LET sp(a) == Abs(At(s, a + 1).mz - At(s, a).mz)
      m     == IF sp(c - 1) < sp(c) THEN sp(c - 1) ELSE sp(c)
  IN  \A a \in (c - 2)..(c + 1) : 2 * sp(a) < 3 * m

C8_Ascent(s, c) ==
  /\ At(s, c - 2).lg < At(s, c - 1).lg /\ At(s, c - 1).lg < At(s, c).lg
  /\ At(s, c + 2).lg < At(s, c + 1).lg /\ At(s, c + 1).lg < At(s, c).lg

C8_Emits(s, c) ==
  /\ C8_Floor(s, c)
  /\ C8_Spacing(s, c)
  /\ C8_Ascent(s, c)
  /\ ComputeTPG(At(s, c - 1), At(s, c), At(s, c + 1)).valid

C8_EmittingCentres ==
  LET Emits(c) == C8_Emits(input.peaks, c) IN SelectSeq(Centres, Emits)

\* C8: on an input of at least 5 samples the output holds exactly one peak
\* for each evaluated centre that meets (a) the intensity floor, (b) the
\* spacing test, (c) the strict ascent on both flanks and (d) a valid fit,
\* in increasing order of the centre, and no other peak.
C8_OutputIsAcceptedCentres ==
  (Len(input.peaks) >= 5 /\ Running) =>
    /\ \A k \in 1..(Len(Centres) - 1) : Centres[k] < Centres[k + 1]
    /\ Len(output.peaks) = Len(C8_EmittingCentres)
    /\ \A j \in 1..Len(C8_EmittingCentres) :
         output.peaks[j].mz = FitAt(C8_EmittingCentres[j]).mu

C8_PeakAndRejects ==
  /\ pc = "done"
  /\ Len(input.peaks) >= 5
  /\ Len(output.peaks) = 2
  /\ \E k \in 1..Len(trace) : ~trace[k].pass

\* A window passed the shape test and its fit was flagged invalid.
C8_InvalidFitSeen ==
  /\ pc = "done"
  /\ \E k \in 1..Len(trace) : trace[k].pass /\ ~trace[k].compOK

\* The centres that passed the shape test.
Accepted == {trace[k].c : k \in {n \in 1..Len(trace) : trace[n].pass}}

\* C9 as stated: the 5-point windows of two accepted centres of one scan
\* share no sample index.
C9_WindowsDisjoint ==
  \A c1 \in Accepted, c2 \in Accepted :
    c1 < c2 => ((c1 - 2)..(c1 + 2)) \cap ((c2 - 2)..(c2 + 2)) = {}

\* C9 amended: two accepted centres of one scan are at least 4 apart, so
\* their 5-point windows share at most one sample index (the last of the one,
\* the first of the other) and their fit triplets share none.
C9_WindowsShareAtMostOne ==
  \A c1 \in Accepted, c2 \in Accepted :
    c1 < c2 =>
      /\ c2 - c1 >= 4
      /\ Cardinality(((c1 - 2)..(c1 + 2)) \cap ((c2 - 2)..(c2 + 2))) <= 1
      /\ ((c1 - 1)..(c1 + 1)) \cap ((c2 - 1)..(c2 + 1)) = {}

C9_SharedFoot ==
  /\ pc = "done"
  /\ ~oobRead
  /\ \E c1 \in Accepted, c2 \in Accepted : c2 = c1 + 4

\* The peaks of a scan that advances by 1 after every centre.
RECURSIVE C10_ScanByOne(_, _, _)
C10_ScanByOne(s, c, area_mode) ==
  IF c + 2 > Len(s) - 1 THEN <<>>
  ELSE LoopBody(s, c, area_mode).peaks \o C10_ScanByOne(s, c + 1, area_mode)

\* C10: if the shape test holds at centre i it fails at i+1, i+2 and i+3, so
\* accepted centres are at least 4 apart and their fit triplets share no
\* sample, and on a run that reads only samples of the input a scan that
\* advances by 1 after every centre emits the same peaks as the scan that
\* jumps.
C10_JumpIsRedundant ==
  /\ \A c \in 2..(Len(input.peaks) - 3) :
       ShapeTest(input.peaks, c) =>
         \A d \in 1..3 :
           c + d <= Len(input.peaks) - 3 => ~ShapeTest(input.peaks, c + d)
  /\ \A c1 \in Accepted, c2 \in Accepted :
       c1 < c2 => /\ c2 - c1 >= 4
                  /\ {c1 - 1, c1, c1 + 1} \cap {c2 - 1, c2, c2 + 1} = {}
  /\ (pc = "done" /\ ~oobRead) =>
       output.peaks = C10_ScanByOne(input.peaks, 2, intensity_type_area)

C10_JumpTaken ==
  /\ pc = "done"
  /\ Len(input.peaks) >= 8
  /\ ShapeTest(input.peaks, 2)
  /\ Centres = <<2, 4, 5>>
  /\ Len(output.peaks) = 1

=============================================================================
